---- MODULE Spec2Model ----
(***************************************************************************)
(* A model of EngineBridge (packages/cli/src/engine/bridge.ts): one Node   *)
(* object that spawns a worker process, reads newline-delimited JSON from  *)
(* its stdout, and correlates unary and streaming requests by id.          *)
(*                                                                         *)
(* Node runs every callback to completion, so each action below is one     *)
(* whole callback or one whole public method call.                         *)
(***************************************************************************)
EXTENDS Integers, Sequences, FiniteSets, TLC

\* ---------------------------------------------------------------- bounds
MaxReq    == 2   \* requests (unary + streaming) minted by randomUUID()
MaxStarts == 2   \* calls of start() that reach spawn()
MaxTotal  == 3   \* processes spawned plus requests minted
MaxChunks == 2   \* status=streaming lines the worker emits per id
MaxQueries == 3  \* questions asked in one interactive talkto session

\* ------------------------------------------------------- value universes
ReadyId   == 0                          \* the reserved id "ready"
Statuses  == {"success", "error", "streaming", "other"}  \* "other": absent or unrecognised
Payloads  == <<"P1", "P2", "P3", "P4">> \* the worker's result for request 1, 2, ..
Chunks    == {"tok", "done"}            \* data of a streaming message: {type:'token'}, {type:'done'}
ErrObjs   == { [code |-> "E1", message |-> "boom"],
               [code |-> "E2", message |-> "boom"],
               [code |-> "E1", message |-> ""] }      \* "" : message absent or empty
ExitCodes == {"1", "null"}              \* null: terminated by a signal
TransportErrors == {"spawn ENOENT"}

VARIABLES
    procs,          \* every ChildProcess spawned by start(), with its readline and waitForReady closure
    process,        \* this.process / this.readline: index into procs, 0 = null
    ready,          \* this.ready
    pending,        \* keys of this.pending
    handlers,       \* ids whose sendStreaming handler is a 'response' listener
    req,            \* per minted id: the caller's promise, its timer, what onChunk received
    last,           \* history: the operation that produced the current state
    cli             \* the talkto command of the CLI (index.ts): where it stands

vars == <<procs, process, ready, pending, handlers, req, last, cli>>

Ids == 1..Len(req)

\* ------------------------------------------------------------- helpers
NoErr == [code |-> "", message |-> ""]     \* response.error is undefined

\* what `last` records: the operation, the id it was about (-1: none), a
\* word on its input or result, and whether an exception left a listener
Last(op, id, arg, threw) == [op |-> op, id |-> id, arg |-> arg, threw |-> threw]

Call(op, id, res) == Last(op, id, res, FALSE)

NoLast == Call("init", -1, "")

\* (response.data as { type?: string })?.type
ChunkType(d) == IF d = "done" THEN "done" ELSE "undefined"

\* response.error?.message || 'Unknown error'
ErrorMessage(e) == IF e.message = "" THEN "Unknown error" ELSE e.message

\* `Engine exited with code ${code}`
ExitMessage(code) ==
    CASE code = "0"    -> "Engine exited with code 0"
      [] code = "1"    -> "Engine exited with code 1"
      [] code = "null" -> "Engine exited with code null"

\* clearTimeout(handle): disarms an armed timer, no effect otherwise
ClearTimeout(t) == IF t = "armed" THEN "cancelled" ELSE t

\* resolve(..) / reject(..) of a promise: only the first call decides it
Settle(r, st, val) ==
    [r EXCEPT !.settles = @ + 1,
              !.st  = IF r.st = "none" THEN st  ELSE @,
              !.val = IF r.st = "none" THEN val ELSE @]

\* kind: unary (send) or stream (sendStreaming); to: the process that read
\* the request line (0: none); timer: the request's setTimeout handle;
\* st, val: the promise returned to the caller; settles: calls of its
\* resolve/reject; chunks: the arguments onChunk was invoked with, in order
NewReq(kind, to) ==
    [kind |-> kind, to |-> to, timer |-> "armed", st |-> "none", val |-> "",
     settles |-> 0, chunks |-> <<>>]

\* the talkto command before it runs.  pc: the await or prompt it stands at;
\* query: options.query is given; spawned: bridge.start() got as far as
\* spawn(); stopped: bridge.stop() has been called; code: the argument of
\* process.exit; out: what it has put on the terminal, in order; asked: the
\* questions handed to handleQuery in interactive mode
NoCli ==
    [pc |-> "idle", query |-> FALSE, spawned |-> FALSE, stopped |-> FALSE,
     code |-> "none", out |-> <<>>, asked |-> 0]

\* ------------------------------------------------------------------ Init
Init ==
    /\ cli = NoCli
    /\ procs = <<>>
    /\ process = 0
    /\ ready = FALSE
    /\ pending = {}
    /\ handlers = {}
    /\ req = <<>>
    /\ last = NoLast

\* ----------------------------------------------------------- start()
\* start(), lines 38-89.  found: existsSync(mainScript).  When the script is
\* missing start() throws before anything is created (the script does not go
\* missing once a start() has found it).  Otherwise a process is
\* spawned, a readline is attached to its stdout, the line / exit / error
\* handlers are installed and waitForReady() arms the 30 s timer and
\* registers its 'response' listener.
NewProc ==
    [alive |-> TRUE, rlOpen |-> TRUE, timer |-> "armed", handler |-> TRUE]

Start(found) ==
    IF ~found
    THEN /\ procs = <<>>
         /\ last' = Call("start", -1, "EngineNotFound")
         /\ UNCHANGED <<procs, process, ready, pending, handlers, req>>
    ELSE /\ Len(procs) < MaxStarts
         /\ Len(procs) + Len(req) < MaxTotal
         /\ procs' = Append(procs, NewProc)
         /\ process' = Len(procs) + 1
         /\ last' = Call("start", -1, "spawned")
         /\ UNCHANGED <<ready, pending, handlers, req>>

\* waitForReady()'s setTimeout callback, lines 93-95: rejects start()'s
\* promise; the 'response' listener stays registered.
StartupTimeout(i) ==
    /\ procs[i].timer = "armed"
    /\ procs' = [procs EXCEPT ![i].timer = "fired"]
    /\ last' = Call("startupTimeout", -1, "")
    /\ UNCHANGED <<process, ready, pending, handlers, req>>

\* waitForReady()'s 'response' listener, lines 97-104, applied to a message
\* whose id is "ready", for the closure that belongs to process record p.
ReadyHandler(p) ==
    IF p.handler
    THEN [p EXCEPT !.timer = ClearTimeout(@), !.handler = FALSE]
    ELSE p

\* The promise start() returns for process record p: the timer callback
\* rejects it, the listener cancels the timer and then resolves it, and the
\* first of the two decides.
StartOutcome(p) ==
    CASE p.timer = "armed"     -> "pending"
      [] p.timer = "fired"     -> "rejected"
      [] p.timer = "cancelled" -> "resolved"

\* A message with id "ready" has been handled: every waitForReady listener
\* registered at that time removed itself.
ReadySeen == \E i \in 1..Len(procs) : ~procs[i].handler

\* ------------------------------------------------- send / sendStreaming
\* this.process?.stdin?.write(message), lines 130 and 181: the line reaches
\* the worker the handle points to when that worker is still running.
\* The result is the process that reads the line, 0 when none does.
Write(ps, h) == IF h # 0 /\ ps[h].alive THEN h ELSE 0

\* The executor of a promise as the states the new request goes through,
\* statement by statement: its timer, whether the bridge has it registered,
\* and the process that has read its line (0: none).
Unsent == [timer |-> "unset", registered |-> FALSE, to |-> 0]

\* send()'s executor with the fault of writing the line first.
SendExecutor_WriteFirst ==
    LET s1 == [Unsent EXCEPT !.to = Write(procs, process)]
        s2 == [s1 EXCEPT !.timer = "armed"]
        s3 == [s2 EXCEPT !.registered = TRUE]
    IN  <<Unsent, s1, s2, s3>>

\* send()'s executor, lines 115-131: setTimeout (117), this.pending.set (122),
\* stdin.write (130).
SendExecutor ==
    LET s1 == [Unsent EXCEPT !.timer = "armed"]
        s2 == [s1 EXCEPT !.registered = TRUE]
        s3 == [s2 EXCEPT !.to = Write(procs, process)]
    IN  <<Unsent, s1, s2, s3>>

\* sendStreaming()'s executor, lines 144-182: setTimeout (145),
\* this.on('response', handler) (173), stdin.write (181).
StreamExecutor ==
    LET s1 == [Unsent EXCEPT !.timer = "armed"]
        s2 == [s1 EXCEPT !.registered = TRUE]
        s3 == [s2 EXCEPT !.to = Write(procs, process)]
    IN  <<Unsent, s1, s2, s3>>

\* send() with the fault of lacking the readiness test of lines 111-113.
Send_NoReadyCheck ==
    /\ Len(req) < MaxReq
    /\ Len(procs) + Len(req) < MaxTotal
    /\ LET id == Len(req) + 1 IN
         /\ req' = Append(req, NewReq("unary", Write(procs, process)))
         /\ pending' = pending \cup {id}
         /\ last' = Call("send", id, "accepted")
    /\ UNCHANGED <<procs, process, ready, handlers>>

\* send(), lines 110-132.
Send ==
    IF ~ready
    THEN /\ last' = Call("send", -1, "Engine not ready")
         /\ UNCHANGED <<procs, process, ready, pending, handlers, req>>
    ELSE /\ Len(req) < MaxReq
         /\ Len(procs) + Len(req) < MaxTotal
         /\ LET id == Len(req) + 1 IN
              /\ req' = Append(req, NewReq("unary", Write(procs, process)))
              /\ pending' = pending \cup {id}
              /\ last' = Call("send", id, "accepted")
         /\ UNCHANGED <<procs, process, ready, handlers>>

\* sendStreaming(), lines 134-183, up to the return of the promise.
SendStreaming ==
    IF ~ready
    THEN /\ last' = Call("sendStreaming", -1, "Engine not ready")
         /\ UNCHANGED <<procs, process, ready, pending, handlers, req>>
    ELSE /\ Len(req) < MaxReq
         /\ Len(procs) + Len(req) < MaxTotal
         /\ LET id == Len(req) + 1 IN
              /\ req' = Append(req, NewReq("stream", Write(procs, process)))
              /\ handlers' = handlers \cup {id}
              /\ last' = Call("sendStreaming", id, "accepted")
         /\ UNCHANGED <<procs, process, ready, pending>>

\* The timer callbacks with the fault of leaving the map entry (line 118) and
\* the listener (line 146) in place.
RequestTimeout_NoDelete(id) ==
    /\ req[id].timer = "armed"
    /\ req' = [req EXCEPT ![id] =
                 Settle([@ EXCEPT !.timer = "fired"], "rejected",
                        IF req[id].kind = "unary" THEN "Request timeout (60s)"
                        ELSE "Streaming timeout (300s)")]
    /\ last' = Call("timeout", id, "")
    /\ UNCHANGED <<procs, process, ready, pending, handlers>>

\* The setTimeout callbacks of send() (lines 117-120) and of sendStreaming()
\* (lines 145-148).
RequestTimeout(id) ==
    /\ req[id].timer = "armed"
    /\ IF req[id].kind = "unary"
       THEN /\ pending' = pending \ {id}
            /\ req' = [req EXCEPT ![id] =
                         Settle([@ EXCEPT !.timer = "fired"], "rejected",
                                "Request timeout (60s)")]
            /\ UNCHANGED handlers
       ELSE /\ handlers' = handlers \ {id}
            /\ req' = [req EXCEPT ![id] =
                         Settle([@ EXCEPT !.timer = "fired"], "rejected",
                                "Streaming timeout (300s)")]
            /\ UNCHANGED pending
    /\ last' = Call("timeout", id, "")
    /\ UNCHANGED <<procs, process, ready>>

\* --------------------------------------------------- rejectAllPending
\* rejectAllPending() with the fault of lacking this.pending.clear(), line 206.
RejectAllPending_NoClear(rq, pend, msg) ==
    [req |-> [i \in 1..Len(rq) |->
                IF i \in pend
                THEN Settle([rq[i] EXCEPT !.timer = ClearTimeout(@)], "rejected", msg)
                ELSE rq[i]],
     pending |-> pend]

\* rejectAllPending(error), lines 201-207.  Result: the records and the map.
RejectAllPending(rq, pend, msg) ==
    [req |-> [i \in 1..Len(rq) |->
                IF i \in pend
                THEN Settle([rq[i] EXCEPT !.timer = ClearTimeout(@)], "rejected", msg)
                ELSE rq[i]],
     pending |-> {}]

\* ------------------------------------------------------ inbound lines
\* The listener of sendStreaming() with the fault of lacking the
\* clearTimeout of line 161.
StreamHandler_ErrorKeepsTimer(r, m, throws) ==
    CASE m.status = "streaming" ->
           LET r1 == [r EXCEPT !.chunks = Append(@, [data |-> m.data, wrapped |-> FALSE])]
           IN  IF throws
               THEN [r |-> r1, keep |-> TRUE, threw |-> TRUE]
               ELSE IF ChunkType(m.data) = "done"
               THEN [r |-> Settle([r1 EXCEPT !.timer = ClearTimeout(@)],
                                  "resolved", "undefined"),
                     keep |-> FALSE, threw |-> FALSE]
               ELSE [r |-> r1, keep |-> TRUE, threw |-> FALSE]
      [] m.status = "error" ->
           [r |-> Settle(r, "rejected", ErrorMessage(m.err)),
            keep |-> FALSE, threw |-> FALSE]
      [] m.status = "success" ->
           LET r1 == [r EXCEPT !.timer = ClearTimeout(@),
                               !.chunks = Append(@, [data |-> m.data, wrapped |-> TRUE])]
           IN  IF throws
               THEN [r |-> r1, keep |-> FALSE, threw |-> TRUE]
               ELSE [r |-> Settle(r1, "resolved", "undefined"),
                     keep |-> FALSE, threw |-> FALSE]
      [] OTHER ->
           [r |-> r, keep |-> TRUE, threw |-> FALSE]

\* The 'response' listener that sendStreaming() registers, lines 150-171,
\* applied to a message m that carries its id; r is the session's record.
\* throws: whether the caller's onChunk throws when it is invoked.
\* Result: the record, whether the listener stays registered, whether an
\* exception left the listener.
StreamHandler(r, m, throws) ==
    CASE m.status = "streaming" ->
           LET r1 == [r EXCEPT !.chunks = Append(@, [data |-> m.data, wrapped |-> FALSE])]
           IN  IF throws
               THEN [r |-> r1, keep |-> TRUE, threw |-> TRUE]
               ELSE IF ChunkType(m.data) = "done"
               THEN [r |-> Settle([r1 EXCEPT !.timer = ClearTimeout(@)],
                                  "resolved", "undefined"),
                     keep |-> FALSE, threw |-> FALSE]
               ELSE [r |-> r1, keep |-> TRUE, threw |-> FALSE]
      [] m.status = "error" ->
           [r |-> Settle([r EXCEPT !.timer = ClearTimeout(@)],
                         "rejected", ErrorMessage(m.err)),
            keep |-> FALSE, threw |-> FALSE]
      [] m.status = "success" ->
           LET r1 == [r EXCEPT !.timer = ClearTimeout(@),
                               !.chunks = Append(@, [data |-> m.data, wrapped |-> TRUE])]
           IN  IF throws
               THEN [r |-> r1, keep |-> FALSE, threw |-> TRUE]
               ELSE [r |-> Settle(r1, "resolved", "undefined"),
                     keep |-> FALSE, threw |-> FALSE]
      [] OTHER ->
           [r |-> r, keep |-> TRUE, threw |-> FALSE]

\* handleResponse() lines 188-198 with the fault of lacking the test for
\* status 'streaming' of line 189.
PendingBranch_NoStreamingTest(r, m) ==
    [r |-> IF m.status = "error"
           THEN Settle([r EXCEPT !.timer = ClearTimeout(@)],
                       "rejected", ErrorMessage(m.err))
           ELSE Settle([r EXCEPT !.timer = ClearTimeout(@)],
                       "resolved", m.data),
     keep |-> FALSE]

\* handleResponse() lines 188-198 with the fault of lacking the
\* clearTimeout of line 190.
PendingBranch_NoClearTimeout(r, m) ==
    IF m.status # "streaming"
    THEN [r |-> IF m.status = "error"
                THEN Settle(r, "rejected", ErrorMessage(m.err))
                ELSE Settle(r, "resolved", m.data),
          keep |-> FALSE]
    ELSE [r |-> r, keep |-> TRUE]

\* handleResponse() lines 188-198, for a message m whose id is a key of
\* this.pending; r is the request's record.  Result: the record and whether
\* the key stays in the map.
PendingBranch(r, m) ==
    IF m.status # "streaming"
    THEN [r |-> IF m.status = "error"
                THEN Settle([r EXCEPT !.timer = ClearTimeout(@)],
                            "rejected", ErrorMessage(m.err))
                ELSE Settle([r EXCEPT !.timer = ClearTimeout(@)],
                            "resolved", m.data),
          keep |-> FALSE]
    ELSE [r |-> r, keep |-> TRUE]

\* handleResponse() with the fault of taking a message with id "ready" for a
\* restart of the worker and failing every pending request.
HandleResponse_ReadySweeps(m, throws) ==
    LET isReady == m.id = ReadyId
        ps  == IF isReady THEN [i \in 1..Len(procs) |-> ReadyHandler(procs[i])]
               ELSE procs
        rdy == IF isReady /\ \E i \in 1..Len(procs) : procs[i].handler
               THEN TRUE ELSE ready
        sh  == IF m.id \in handlers
               THEN StreamHandler(req[m.id], m, throws)
               ELSE [r |-> <<>>, keep |-> TRUE, threw |-> FALSE]
        rq1 == IF m.id \in handlers THEN [req EXCEPT ![m.id] = sh.r] ELSE req
        hs  == IF sh.keep THEN handlers ELSE handlers \ {m.id}
        pb  == IF ~sh.threw /\ m.id \in pending
               THEN PendingBranch(rq1[m.id], m)
               ELSE [r |-> <<>>, keep |-> TRUE]
        rq2 == IF ~sh.threw /\ m.id \in pending
               THEN [rq1 EXCEPT ![m.id] = pb.r] ELSE rq1
        pd  == IF pb.keep THEN pending ELSE pending \ {m.id}
        sw  == RejectAllPending(rq2, pd, "Engine restarted")
    IN  [procs |-> ps, ready |-> rdy, handlers |-> hs,
         pending |-> IF isReady THEN sw.pending ELSE pd,
         req |-> IF isReady THEN sw.req ELSE rq2, threw |-> sh.threw]

\* handleResponse() with the fault of taking the oldest pending request
\* instead of the one registered under the id of the message.
HandleResponse_Fifo(m, throws) ==
    LET isReady == m.id = ReadyId
        ps  == IF isReady THEN [i \in 1..Len(procs) |-> ReadyHandler(procs[i])]
               ELSE procs
        rdy == IF isReady /\ \E i \in 1..Len(procs) : procs[i].handler
               THEN TRUE ELSE ready
        sh  == IF m.id \in handlers
               THEN StreamHandler(req[m.id], m, throws)
               ELSE [r |-> <<>>, keep |-> TRUE, threw |-> FALSE]
        rq1 == IF m.id \in handlers THEN [req EXCEPT ![m.id] = sh.r] ELSE req
        hs  == IF sh.keep THEN handlers ELSE handlers \ {m.id}
        hit == ~sh.threw /\ m.id \in pending
        k   == IF hit THEN CHOOSE x \in pending : \A y \in pending : x <= y ELSE 0
        pb  == IF hit THEN PendingBranch(rq1[k], m) ELSE [r |-> <<>>, keep |-> TRUE]
        rq2 == IF hit THEN [rq1 EXCEPT ![k] = pb.r] ELSE rq1
        pd  == IF pb.keep THEN pending ELSE pending \ {k}
    IN  [procs |-> ps, ready |-> rdy, handlers |-> hs, pending |-> pd,
         req |-> rq2, threw |-> sh.threw]

\* handleResponse(), lines 185-199: emit('response') runs the waitForReady
\* listeners and the streaming listeners, then the pending map is looked up.
\* A listener that throws ends emit() and handleResponse() at once.  Ids are
\* unique, so at most one streaming listener passes its id filter (line 151)
\* and the order of the listeners does not matter.
HandleResponse(m, throws) ==
    LET isReady == m.id = ReadyId
        ps  == IF isReady THEN [i \in 1..Len(procs) |-> ReadyHandler(procs[i])]
               ELSE procs
        rdy == IF isReady /\ \E i \in 1..Len(procs) : procs[i].handler
               THEN TRUE ELSE ready
        sh  == IF m.id \in handlers
               THEN StreamHandler(req[m.id], m, throws)
               ELSE [r |-> <<>>, keep |-> TRUE, threw |-> FALSE]
        rq1 == IF m.id \in handlers THEN [req EXCEPT ![m.id] = sh.r] ELSE req
        hs  == IF sh.keep THEN handlers ELSE handlers \ {m.id}
        pb  == IF ~sh.threw /\ m.id \in pending
               THEN PendingBranch(rq1[m.id], m)
               ELSE [r |-> <<>>, keep |-> TRUE]
        rq2 == IF ~sh.threw /\ m.id \in pending
               THEN [rq1 EXCEPT ![m.id] = pb.r] ELSE rq1
        pd  == IF pb.keep THEN pending ELSE pending \ {m.id}
    IN  [procs |-> ps, ready |-> rdy, handlers |-> hs, pending |-> pd,
         req |-> rq2, threw |-> sh.threw]

\* The lines process i can put on its stdout: text that is not JSON, the
\* JSON value null, or a message for "ready" or for an id it has read from
\* its stdin.  err is NoErr when the message has no error member.
Msg(id, st, d, e) == [kind |-> "msg", id |-> id, status |-> st, data |-> d, err |-> e]

Known(i) == { id \in Ids : req[id].to = i }

Lines(i) ==
    { [kind |-> k, id |-> -1, status |-> "", data |-> "", err |-> NoErr] :
        k \in {"nonjson", "null"} }
    \cup { Msg(ReadyId, st, "", NoErr) : st \in Statuses }
    \cup { Msg(id, "success", Payloads[id], NoErr) : id \in Known(i) }
    \cup { Msg(id, "other", Payloads[id], NoErr) : id \in Known(i) }
    \cup { Msg(id, "error", "", e) : id \in Known(i), e \in ErrObjs }
    \cup { Msg(id, "streaming", d, NoErr) :
             id \in { k \in Known(i) : Len(req[k].chunks) < MaxChunks },
             d \in Chunks }

\* Whether onChunk can throw while line is handled: only when it is invoked.
Throws(line) ==
    IF line.kind = "msg" /\ line.id \in handlers
          /\ line.status \in {"streaming", "success"}
    THEN BOOLEAN ELSE {FALSE}

\* The 'line' listener with the fault of failing every pending request when
\* a line cannot be decoded.
OnLine_ParseErrorRejects(i, line, throws) ==
    /\ procs[i].rlOpen
    /\ IF line.kind \in {"nonjson", "null"}
       THEN LET s == RejectAllPending(req, pending, "Unknown error") IN
            /\ req' = s.req
            /\ pending' = s.pending
            /\ last' = Last("line", -1, line.kind, TRUE)
            /\ UNCHANGED <<procs, process, ready, handlers>>
       ELSE LET h == HandleResponse(line, throws) IN
            /\ procs' = h.procs
            /\ ready' = h.ready
            /\ handlers' = h.handlers
            /\ pending' = h.pending
            /\ req' = h.req
            /\ last' = Last("line", line.id,
                            IF line.id = ReadyId THEN "ready" ELSE line.status,
                            h.threw)
            /\ UNCHANGED process

\* The readline 'line' listener, lines 64-71.  JSON.parse throws on text
\* that is not JSON; for the JSON value null the first read of response.id
\* throws a TypeError; both end in the catch block, which emits a log event.
OnLine(i, line, throws) ==
    /\ procs[i].rlOpen
    /\ IF line.kind \in {"nonjson", "null"}
       THEN /\ last' = Last("line", -1, line.kind, TRUE)
            /\ UNCHANGED <<procs, process, ready, pending, handlers, req>>
       ELSE LET h == HandleResponse(line, throws) IN
            /\ procs' = h.procs
            /\ ready' = h.ready
            /\ handlers' = h.handlers
            /\ pending' = h.pending
            /\ req' = h.req
            /\ last' = Last("line", line.id,
                            IF line.id = ReadyId THEN "ready" ELSE line.status,
                            h.threw)
            /\ UNCHANGED <<process>>

\* ------------------------------------------------ failure propagation
\* The 'exit' listener with the fault of clearing this.ready.
ProcExit_ClearsReady(i, code) ==
    /\ procs[i].alive
    /\ procs' = [procs EXCEPT ![i].alive = FALSE]
    /\ LET s == RejectAllPending(req, pending, ExitMessage(code)) IN
         /\ req' = s.req
         /\ pending' = s.pending
    /\ ready' = FALSE
    /\ last' = Call("exit", -1, "")
    /\ UNCHANGED <<process, handlers>>

\* The process 'exit' listener, lines 77-80.
ProcExit(i, code) ==
    /\ procs[i].alive
    /\ procs' = [procs EXCEPT ![i].alive = FALSE]
    /\ LET s == RejectAllPending(req, pending, ExitMessage(code)) IN
         /\ req' = s.req
         /\ pending' = s.pending
    /\ last' = Call("exit", -1, "")
    /\ UNCHANGED <<process, ready, handlers>>

\* The process 'error' listener, lines 82-85.  emit('error', ..) on an
\* EventEmitter without an 'error' listener throws its argument, so line 84
\* is reached only when the owner of the bridge has one registered at that
\* time (listened).  Otherwise the exception leaves the listener with the
\* pending requests untouched; a host that dies of it takes no further step.
ProcError(i, e, listened) ==
    /\ procs[i].alive
    /\ IF listened
       THEN LET s == RejectAllPending(req, pending, e) IN
            /\ req' = s.req
            /\ pending' = s.pending
            /\ last' = Last("error", -1, e, FALSE)
       ELSE /\ last' = Last("error", -1, e, TRUE)
            /\ UNCHANGED <<req, pending>>
    /\ UNCHANGED <<procs, process, ready, handlers>>

\* stop(), lines 209-214.
Stop ==
    /\ ready' = FALSE
    /\ procs' = IF process = 0 THEN procs
                ELSE [procs EXCEPT ![process].rlOpen = FALSE]
    /\ LET s == RejectAllPending(req, pending, "Engine stopped") IN
         /\ req' = s.req
         /\ pending' = s.pending
    /\ last' = Call("stop", -1, "returned")
    /\ UNCHANGED <<process, handlers>>

\* ------------------------------------------------------ specification
Next ==
    \/ (\E found \in BOOLEAN : Start(found)) /\ UNCHANGED cli
    \/ (\E i \in 1..Len(procs) : StartupTimeout(i)) /\ UNCHANGED cli
    \/ Send /\ UNCHANGED cli
    \/ SendStreaming /\ UNCHANGED cli
    \/ (\E id \in Ids : RequestTimeout(id)) /\ UNCHANGED cli
    \/ (\E i \in 1..Len(procs) : \E line \in Lines(i) : \E throws \in Throws(line) :
          OnLine(i, line, throws)) /\ UNCHANGED cli
    \/ (\E i \in 1..Len(procs), code \in ExitCodes : ProcExit(i, code)) /\ UNCHANGED cli
    \/ (\E i \in 1..Len(procs), e \in TransportErrors, listened \in BOOLEAN :
          ProcError(i, e, listened)) /\ UNCHANGED cli
    \/ Stop /\ UNCHANGED cli

Spec == Init /\ [][Next]_vars

\* Node fires a timer that stays armed: the callback of each request's
\* setTimeout runs unless clearTimeout was called first.
LiveSpec ==
    /\ Spec
    /\ \A id \in 1..MaxReq :
          WF_vars(id \in Ids /\ RequestTimeout(id) /\ UNCHANGED cli)

\* ------------------------------------------- the CLI's talkto command
\* talkto() of packages/cli/src/index.ts, lines 85-232, with handleQuery(),
\* lines 234-273.  It owns one bridge and awaits its promises one at a time;
\* each action below is the code that runs from one await or prompt to the
\* next.  The outcomes of the awaited promises are those the bridge shows:
\* start() rejects before spawn() (script not found) or after it (startup
\* timeout), send() resolves with data or rejects.
StartOutcomes == {"resolved", "Engine not found", "Engine startup timeout"}

\* what the awaited index request gives: rejected, or data with errors (the
\* first naming Ollama or not), with files processed, with files skipped only,
\* or with neither
IndexResults == {"rejected", "errorsOllama", "errors", "processed", "skipped", "none"}

Inputs == {"empty", "exit", "question"}   \* a line typed at the prompt

bridgeVars == <<procs, process, ready, pending, handlers, req, last>>

\* process.exit(code)
Exit(c, code) == [c EXCEPT !.pc = "exited", !.code = code]

\* await bridge.stop()
BridgeStop(c) == [c EXCEPT !.stopped = TRUE]

\* lines 85-110: the path test, new EngineBridge(), bridge.start() is called
Talkto(pathExists, query) ==
    /\ cli.pc = "idle"
    /\ cli' = IF ~pathExists
              THEN Exit([cli EXCEPT !.out = Append(@, "Path does not exist")], "1")
              ELSE [cli EXCEPT !.pc = "start", !.query = query,
                               !.out = Append(@, "Starting engine...")]
    /\ UNCHANGED bridgeVars

\* lines 110-113 and the catch block of lines 131-135, when the promise of
\* bridge.start() settles
CliStartSettled(o) ==
    /\ cli.pc = "start"
    /\ cli' = IF o = "resolved"
              THEN [cli EXCEPT !.pc = "config", !.spawned = TRUE]
              ELSE Exit([cli EXCEPT !.spawned = (o = "Engine startup timeout"),
                                    !.out = Append(@, "Failed to start engine")], "1")
    /\ UNCHANGED bridgeVars

\* lines 113-141 and the catch block of lines 131-135, when the promise of
\* the config request settles
CliConfigSettled(ok) ==
    /\ cli.pc = "config"
    /\ cli' = IF ok
              THEN [cli EXCEPT !.pc = "index", !.out = Append(@, "Engine ready")]
              ELSE Exit([cli EXCEPT !.out = Append(@, "Failed to start engine")], "1")
    /\ UNCHANGED bridgeVars

\* lines 141-231, when the promise of the index request settles: the error
\* paths stop the bridge and exit; otherwise the single query is handed to
\* handleQuery, or the prompt is shown
CliIndexSettled(res) ==
    /\ cli.pc = "index"
    /\ cli' =
         CASE res = "rejected" ->
                Exit(BridgeStop([cli EXCEPT !.out = Append(@, "Indexing failed")]), "1")
           [] res = "errorsOllama" ->
                Exit(BridgeStop([cli EXCEPT !.out = Append(@, "Ollama is not running")]), "1")
           [] res = "errors" ->
                Exit(BridgeStop([cli EXCEPT !.out = Append(@, "Indexing failed with errors")]), "1")
           [] OTHER ->
                [cli EXCEPT !.pc = IF cli.query THEN "single" ELSE "prompt",
                            !.out = Append(@,
                                       CASE res = "processed" -> "Indexed"
                                         [] res = "skipped"   -> "Already indexed"
                                         [] OTHER             -> "No files found to index")]
    /\ UNCHANGED bridgeVars

\* lines 187-189: handleQuery returns, whether sendStreaming resolved or
\* rejected (lines 240-272 catch the rejection)
CliSingleSettled(ok) ==
    /\ cli.pc = "single"
    /\ cli' = Exit(BridgeStop([cli EXCEPT !.out = Append(@, IF ok THEN "answer" ELSE "Error")]), "0")
    /\ UNCHANGED bridgeVars

\* the readline 'close' listener, lines 224-229
OnClose(c) == Exit(BridgeStop([c EXCEPT !.out = Append(@, "Goodbye!")]), "0")

\* the rl.question callback, lines 204-221
CliInput(input) ==
    /\ cli.pc = "prompt"
    /\ cli' = CASE input = "empty" -> cli
                [] input = "exit"  -> OnClose(cli)
                [] OTHER           -> [cli EXCEPT !.pc = "asking", !.asked = @ + 1]
    /\ input = "question" => cli.asked < MaxQueries
    /\ UNCHANGED bridgeVars

\* lines 219-220: handleQuery returns and the prompt is shown again
CliQuerySettled(ok) ==
    /\ cli.pc = "asking"
    /\ cli' = [cli EXCEPT !.pc = "prompt", !.out = Append(@, IF ok THEN "answer" ELSE "Error")]
    /\ UNCHANGED bridgeVars

\* the terminal's input ends while the prompt is shown or a query runs
CliClose ==
    /\ cli.pc \in {"prompt", "asking"}
    /\ cli' = OnClose(cli)
    /\ UNCHANGED bridgeVars

CliNext ==
    \/ \E pathExists \in BOOLEAN, query \in BOOLEAN : Talkto(pathExists, query)
    \/ \E o \in StartOutcomes : CliStartSettled(o)
    \/ \E ok \in BOOLEAN : CliConfigSettled(ok)
    \/ \E res \in IndexResults : CliIndexSettled(res)
    \/ \E ok \in BOOLEAN : CliSingleSettled(ok)
    \/ \E input \in Inputs : CliInput(input)
    \/ \E ok \in BOOLEAN : CliQuerySettled(ok)
    \/ CliClose

CliSpec == Init /\ [][CliNext]_vars

\* -------------------------------------------------------------- claims
UnaryIds  == { id \in Ids : req[id].kind = "unary" }
StreamIds == { id \in Ids : req[id].kind = "stream" }

\* the bridge state the claims speak of, without the history record
bridge == <<procs, process, ready, pending, handlers, req>>

\* something can still settle the promise of request id: its timer, its entry
\* in the pending map, or its 'response' listener
Settleable(id) ==
    \/ req[id].timer = "armed"
    \/ id \in pending
    \/ id \in handlers

\* C1: every accepted send() and sendStreaming() is settled exactly once: its
\* promise never has a second resolve/reject applied, and while it is unsettled
\* something is left that will settle it (a timer, a map entry or a listener),
\* so it is not left unsettled for ever.
C1_ExactlyOnce ==
    \A id \in Ids :
        /\ req[id].settles <= 1
        /\ req[id].st = "none" => Settleable(id)

\* C2: when the worker exits with N unary requests pending and M streaming
\* sessions open, the exit handler fails all N + M callers with the error that
\* carries the exit code and leaves no pending request and no session.
C2_CrashSweep ==
    [][\A i \in 1..Len(procs), code \in ExitCodes :
          ProcExit(i, code) =>
             /\ \A id \in pending \cup handlers :
                   /\ req'[id].st = "rejected"
                   /\ req'[id].val = ExitMessage(code)
             /\ pending' = {}
             /\ handlers' = {}]_vars

\* C3: while no message with id "ready" has been received, every send() and
\* every sendStreaming() fails with the not-ready error and registers no
\* pending request, no listener and no timer, and writes nothing to the worker.
C3_ReadinessGating ==
    [][(~ReadySeen /\ last'.op \in {"send", "sendStreaming"}) =>
          /\ last'.arg = "Engine not ready"
          /\ UNCHANGED bridge]_vars

\* a bridge that awaits the ready message has just refused a sendStreaming()
C3_Witness ==
    /\ procs # <<>>
    /\ ~ReadySeen
    /\ last = Call("sendStreaming", -1, "Engine not ready")

\* C4: a success or error message with id X settles only the request
\* registered under X, a pending unary request with the data of that very
\* message, and leaves every other request, timer and session as it was; so
\* requests answered out of order are resolved in the order of the answers,
\* each with its own data.
C4_NoCrossTalk ==
    [][(last'.op = "line" /\ last'.id \in Ids
            /\ last'.arg \in {"success", "error"}) =>
          LET x == last'.id IN
          /\ \A y \in Ids \ {x} : req'[y] = req[y]
          /\ pending' \ {x} = pending \ {x}
          /\ handlers' \ {x} = handlers \ {x}
          /\ (x \in pending /\ last'.arg = "success") =>
                /\ req'[x].st = "resolved"
                /\ req'[x].val = Payloads[x]
                /\ x \notin pending'
          /\ (x \in pending /\ last'.arg = "error") =>
                /\ req'[x].st = "rejected"
                /\ x \notin pending']_vars

\* R1 and R2 were sent in that order, the worker has just answered R2, and R1
\* is still pending
C4_Witness ==
    /\ Len(req) = 2
    /\ UnaryIds = {1, 2}
    /\ last = Last("line", 2, "success", FALSE)
    /\ req[2].st = "resolved" /\ req[2].val = Payloads[2]
    /\ req[1].st = "none" /\ pending = {1} /\ req[1].timer = "armed"

\* a chunk handed to onChunk is of type done
IsDone(c) == c.wrapped \/ ChunkType(c.data) = "done"

\* C5: onChunk receives the status=streaming messages of its session in the
\* order of arrival, each at once when its line is read, up to and including
\* the first chunk of type done and none after it; the completion resolves
\* only in a step that delivered a done chunk.
C5_SessionOrder ==
    [][\A i \in 1..Len(procs) : \A line \in Lines(i) : \A throws \in Throws(line) :
          (OnLine(i, line, throws) /\ line.id \in StreamIds) =>
             LET id   == line.id
                 done == \E k \in 1..Len(req[id].chunks) : IsDone(req[id].chunks[k])
             IN  /\ done => req'[id].chunks = req[id].chunks
                 /\ (~done /\ id \in handlers /\ line.status = "streaming") =>
                       req'[id].chunks =
                          Append(req[id].chunks, [data |-> line.data, wrapped |-> FALSE])
                 /\ (req[id].st = "none" /\ req'[id].st = "resolved") =>
                       /\ req'[id].chunks # <<>>
                       /\ IsDone(req'[id].chunks[Len(req'[id].chunks)])]_vars

\* C6: a success or error message for a unary request that is already settled
\* (timed out, answered or swept) changes nothing, and no exception leaves the
\* line handler.
C6_DanglingDrop ==
    [][(last'.op = "line" /\ last'.id \in UnaryIds
            /\ last'.arg \in {"success", "error"}
            /\ req[last'.id].st # "none") =>
          /\ UNCHANGED bridge
          /\ ~last'.threw]_vars

\* the worker has just answered a request that had timed out, while another
\* request is pending
C6_Witness ==
    /\ Len(req) = 2
    /\ req[1].kind = "unary" /\ req[1].st = "rejected"
    /\ req[1].val = "Request timeout (60s)" /\ req[1].settles = 1
    /\ last = Last("line", 1, "success", FALSE)
    /\ req[2].st = "none" /\ 2 \in pending

\* C7: a session answered by one status=success message with payload P gets
\* exactly one onChunk invocation, with a done chunk that carries P, and then
\* resolves with its timer cancelled and its listener removed; a session
\* answered by one streamed done chunk ends in the same way.
C7_SuccessAsStream ==
    [][\A i \in 1..Len(procs) : \A line \in Lines(i) : \A throws \in Throws(line) :
          (OnLine(i, line, throws) /\ line.id \in handlers
              /\ req[line.id].chunks = <<>>
              /\ \/ line.status = "success"
                 \/ line.status = "streaming" /\ ChunkType(line.data) = "done") =>
             /\ Len(req'[line.id].chunks) = 1
             /\ IsDone(req'[line.id].chunks[1])
             /\ req'[line.id].chunks[1].data = line.data
             /\ req'[line.id].st = "resolved"
             /\ req'[line.id].settles = 1
             /\ req'[line.id].timer = "cancelled"
             /\ line.id \notin handlers']_vars

\* C8: a line that is not JSON is logged and changes nothing else: not the
\* readiness flag, the pending map, a timer, a session or a caller's outcome.
C8_DiagnosticTolerance ==
    [][(last'.op = "line" /\ last'.arg = "nonjson") => UNCHANGED bridge]_vars

\* a line that is not JSON has just been read while a unary request is pending
\* and a streaming session is open
C8_Witness ==
    /\ last = Last("line", -1, "nonjson", TRUE)
    /\ ready
    /\ pending # {}
    /\ handlers # {}

\* C9: when stop() returns, every unary request that was pending and every
\* streaming session that was open has been failed with the stopped cause and
\* its timer is cancelled, and no request or session remains registered.
C9_StopFailsAll ==
    [][last'.op = "stop" =>
          /\ \A id \in pending \cup handlers :
                /\ req'[id].st = "rejected"
                /\ req'[id].val = "Engine stopped"
                /\ req'[id].timer = "cancelled"
          /\ pending' = {}
          /\ handlers' = {}]_vars

\* C10: no promise has a second resolve/reject applied, and a trigger of the
\* failure propagator (stop(), exit, transport error) leaves every request
\* that is already settled as it was; when nothing is pending it changes no
\* request at all.
C10_SweepIdempotent ==
    /\ [](\A id \in Ids : req[id].settles <= 1)
    /\ [][last'.op \in {"stop", "exit", "error"} =>
             /\ \A id \in Ids : req[id].st # "none" => req'[id] = req[id]
             /\ pending = {} => req' = req]_vars

\* the worker's exit has just been handled after a transport error had
\* already failed a request
C10_Witness ==
    /\ last.op = "exit"
    /\ \E id \in Ids : /\ req[id].st = "rejected"
                        /\ req[id].val \in TransportErrors
                        /\ req[id].settles = 1

\* new Error(message), lines 163 and 194: the object the caller is failed
\* with has a message and no code
NewError(msg) == [code |-> "", message |-> msg]

\* C11: a status=error message that matches a pending unary request or an open
\* streaming session fails the caller with an error that carries the code and
\* the message the worker supplied, so two worker errors that differ only in
\* their code fail the caller differently.
C11_ErrorVerbatim ==
    [][\A i \in 1..Len(procs) : \A id \in Known(i) : \A e \in ErrObjs :
          (OnLine(i, Msg(id, "error", "", e), FALSE) /\ id \in pending \cup handlers) =>
             /\ req'[id].st = "rejected"
             /\ NewError(req'[id].val) = e]_vars

\* every start() of the bridge has failed by its startup timeout
AllStartsTimedOut ==
    /\ procs # <<>>
    /\ \A i \in 1..Len(procs) : StartOutcome(procs[i]) = "rejected"

\* C12: once start() has failed by the startup timeout the bridge never becomes
\* ready: no later step, a message with id "ready" included, sets the flag.
C12_FailedIsTerminal ==
    [][(AllStartsTimedOut /\ ~ready) => ~ready']_vars

\* C13: when the worker exits or reports a process error while its start() is
\* still awaiting the ready message, start() fails in that very step, without
\* the startup timer having to fire.
C13_StartupExitFails ==
    [][\A i \in 1..Len(procs) :
          (/\ StartOutcome(procs[i]) = "pending"
           /\ \/ \E code \in ExitCodes : ProcExit(i, code)
              \/ \E e \in TransportErrors, l \in BOOLEAN : ProcError(i, e, l)) =>
             StartOutcome(procs'[i]) = "rejected"]_vars

\* stop() has been called on a started bridge: only stop() closes a readline
Stopped == \E i \in 1..Len(procs) : ~procs[i].rlOpen

\* C14: after stop() nothing makes the bridge ready again, a further start()
\* included, so the flag goes from false to true at most once per instance.
C14_GateOnce ==
    [][Stopped => ~ready']_vars

\* C15: a JSON line without a recognisable status, and the JSON value null,
\* are diagnostics: even under the id of a pending request or an open session
\* they settle no caller, remove no entry and cancel no timer.
C15_NoStatusIsDiagnostic ==
    [][(last'.op = "line" /\ last'.arg \in {"other", "null"}) =>
          UNCHANGED bridge]_vars

\* C16: a status=streaming message under the id of a pending unary request is
\* discarded: the request stays in the map, unsettled, with its timer armed,
\* and the success or error message or the timeout that comes next for that id
\* settles it as usual.
C16_StreamingToUnary ==
    /\ [][(last'.op = "line" /\ last'.arg = "streaming" /\ last'.id \in UnaryIds) =>
             /\ UNCHANGED bridge
             /\ ~last'.threw
             /\ last'.id \in pending =>
                   /\ req'[last'.id].st = "none"
                   /\ req'[last'.id].timer = "armed"]_vars
    /\ [][(/\ last.op = "line" /\ last.arg = "streaming" /\ last.id \in pending
           /\ last'.id = last.id) =>
             LET x == last.id IN
             /\ (last'.op = "line" /\ last'.arg = "success") =>
                   /\ req'[x].st = "resolved" /\ req'[x].val = Payloads[x]
                   /\ req'[x].timer = "cancelled" /\ x \notin pending'
             /\ (last'.op = "line" /\ last'.arg = "error") =>
                   /\ req'[x].st = "rejected"
                   /\ req'[x].timer = "cancelled" /\ x \notin pending'
             /\ last'.op = "timeout" =>
                   /\ req'[x].st = "rejected" /\ req'[x].val = "Request timeout (60s)"
                   /\ x \notin pending']_vars

\* a status=streaming message has just been read under the id of a pending
\* unary request
C16_Witness ==
    /\ last = Last("line", 1, "streaming", FALSE)
    /\ req[1].kind = "unary"
    /\ 1 \in pending
    /\ req[1].st = "none" /\ req[1].timer = "armed"

\* C17: a done chunk, a status=error or a status=success message closes a
\* streaming session: its timer is cancelled, its completion is settled and
\* its listener is gone; a message under the id of a closed session invokes
\* no onChunk and changes nothing.
C17_TerminalCloses ==
    [][(last'.op = "line" /\ last'.id \in StreamIds) =>
          LET x       == last'.id
              gotDone == /\ Len(req'[x].chunks) > Len(req[x].chunks)
                         /\ IsDone(req'[x].chunks[Len(req'[x].chunks)])
          IN  /\ (x \in handlers /\ (last'.arg \in {"success", "error"} \/ gotDone)) =>
                    /\ req'[x].timer = "cancelled"
                    /\ req'[x].st # "none"
                    /\ x \notin handlers'
              /\ (\E k \in 1..Len(req[x].chunks) : IsDone(req[x].chunks[k])) =>
                    req'[x] = req[x]
              /\ req[x].st # "none" => req'[x] = req[x]]_vars

\* C19: an id is a key of the pending map exactly when its unary caller is
\* unsettled and its timer is armed; a settled caller has been settled once,
\* its entry is gone and its timer is disarmed.
C19_PendingInStep ==
    /\ pending \subseteq UnaryIds
    /\ \A id \in UnaryIds :
          IF id \in pending
          THEN req[id].st = "none" /\ req[id].timer = "armed"
          ELSE req[id].st # "none" /\ req[id].timer # "armed" /\ req[id].settles = 1

\* one request has timed out and the worker has answered the other
C19_Witness ==
    /\ UnaryIds = {1, 2}
    /\ pending = {}
    /\ req[1].timer = "fired" /\ req[1].st = "rejected"
    /\ req[2].timer = "cancelled" /\ req[2].st = "resolved"

\* C20: registration precedes transmission.  At no point of send() or of
\* sendStreaming() has the worker the request line while the bridge has no
\* entry (or listener) and no timer for its id; the calls end in the state
\* their last statement leaves; and a request the worker has, that is neither
\* settled nor timed out, is registered, so its response finds it.
C20_RegisterBeforeWrite ==
    /\ [](\A k \in 1..4 : \A s \in {SendExecutor[k], StreamExecutor[k]} :
             s.to # 0 => (s.registered /\ s.timer = "armed"))
    /\ [](\A id \in Ids :
             (req[id].to # 0 /\ req[id].st = "none" /\ req[id].timer = "armed") =>
                id \in pending \cup handlers)
    /\ [][(last'.op \in {"send", "sendStreaming"} /\ last'.arg = "accepted") =>
             LET id == last'.id
                 s  == IF last'.op = "send" THEN SendExecutor[4] ELSE StreamExecutor[4]
             IN  /\ req'[id].to = s.to
                 /\ req'[id].timer = s.timer
                 /\ (id \in pending' \cup handlers') = s.registered]_vars

\* a send() has just written its line to a running worker
C20_Witness ==
    /\ last = Call("send", 1, "accepted")
    /\ req[1].to # 0
    /\ procs[req[1].to].alive
    /\ 1 \in pending
    /\ req[1].timer = "armed"

\* a sweep of the failure propagator has run: a worker has exited or stop()
\* has closed a readline
SweepBegun == \E i \in 1..Len(procs) : ~procs[i].alive \/ ~procs[i].rlOpen

\* request id has just been registered, after a sweep
RegisteredAfterSweep(id) ==
    /\ last.op \in {"send", "sendStreaming"}
    /\ last.arg = "accepted"
    /\ last.id = id
    /\ SweepBegun

\* C18: a unary request or streaming session registered after a sweep of the
\* failure propagator has begun is settled in the end (timers that stay armed
\* fire): none is left unsettled for ever.
C18_NoStranding ==
    \A id \in 1..MaxReq :
        RegisteredAfterSweep(id) ~> (id \in Ids /\ req[id].st # "none")

\* onChunk has been handed a chunk of type done in session id
GotDone(id) == \E k \in 1..Len(req[id].chunks) : IsDone(req[id].chunks[k])

\* C21: the timer of a streaming session that fires rejects the completion
\* with the streaming-timeout error and removes the listener, after which a
\* message under that id invokes no onChunk and settles nothing; and the timer
\* of a session never fires after the session's terminal message.
C21_StreamingTimeout ==
    [][(last'.id \in StreamIds /\ last'.op \in {"timeout", "line"}) =>
          LET x == last'.id IN
          /\ last'.op = "timeout" =>
                /\ req'[x].timer = "fired"
                /\ req[x].st = "none" =>
                      /\ req'[x].st = "rejected"
                      /\ req'[x].val = "Streaming timeout (300s)"
                /\ x \notin handlers'
                /\ ~GotDone(x)
          /\ (last'.op = "line" /\ req[x].timer = "fired") =>
                req'[x] = req[x] /\ ~last'.threw]_vars

\* C22: on a ready bridge a further message with id "ready", whatever its
\* status, changes neither the flag, the pending map, a request's timer or
\* outcome, nor a session; with no start() listening for it, it changes
\* nothing at all.
C22_DuplicateHandshake ==
    [][(ready /\ last'.op = "line" /\ last'.id = ReadyId) =>
          /\ UNCHANGED <<ready, pending, handlers, req, process>>
          /\ ~last'.threw
          /\ (\A i \in 1..Len(procs) : ~procs[i].handler) => UNCHANGED procs]_vars

\* a second message with id "ready" has just been read while a unary request
\* is pending and a streaming session is open
C22_Witness ==
    /\ last = Last("line", ReadyId, "ready", FALSE)
    /\ ready
    /\ \A i \in 1..Len(procs) : ~procs[i].handler
    /\ pending # {}
    /\ handlers # {}

Timeouts == {"Request timeout (60s)", "Streaming timeout (300s)"}

\* a worker exit or transport error leaves the readiness flag as it was
ExitKeepsReady ==
    [][last'.op \in {"exit", "error"} => ready' = ready]_vars

\* on a ready bridge send() and sendStreaming() are accepted and registered
ReadyAccepts ==
    [][(ready /\ last'.op \in {"send", "sendStreaming"}) =>
          /\ last'.arg = "accepted"
          /\ last'.id \in pending' \cup handlers'
          /\ req'[last'.id].timer = "armed"]_vars

C24_ThrowingOnChunk ==
    \A id \in 1..MaxReq :
        (id \in Ids /\ req[id].kind = "stream") ~> (id \in Ids /\ req[id].st # "none")

\* onChunk threw on the done chunk built from a status=success message: only
\* then is a wrapped chunk recorded without the completion being resolved
ThrewOnSuccess(id) ==
    /\ req[id].st = "none"
    /\ \E k \in 1..Len(req[id].chunks) : req[id].chunks[k].wrapped

\* C25: for every streaming session whose onChunk has not thrown, the
\* listener is registered exactly when the timer is armed and exactly when
\* the completion is unsettled.
C25_SessionFactsCoincide ==
    /\ handlers \subseteq StreamIds
    /\ \A id \in StreamIds :
          ~ThrewOnSuccess(id) =>
             /\ (id \in handlers) = (req[id].timer = "armed")
             /\ (id \in handlers) = (req[id].st = "none")
             /\ req[id].st # "none" => req[id].settles = 1

\* stop() has just returned with one session still open and another closed
\* by its done chunk
C25_Witness ==
    /\ last.op = "stop"
    /\ StreamIds = {1, 2}
    /\ \E a \in StreamIds, b \in StreamIds :
          /\ a \in handlers /\ req[a].timer = "armed" /\ req[a].st = "none"
          /\ b \notin handlers /\ req[b].timer = "cancelled" /\ req[b].st = "resolved"

\* C26: the bridge has at most one spawned, unterminated worker at any time,
\* and only the exit of the process it holds fails pending requests.
C26_OneWorker ==
    /\ [](Cardinality({i \in 1..Len(procs) : procs[i].alive}) <= 1)
    /\ [][\A i \in 1..Len(procs), code \in ExitCodes :
             (ProcExit(i, code) /\ req' # req) => i = process]_vars

\* C27: whenever the talkto command has ended the CLI process after
\* bridge.start() had spawned the worker, bridge.stop() was called before
\* process.exit.
C27_StopBeforeExit ==
    (cli.pc = "exited" /\ cli.spawned) => cli.stopped

====
